---- MODULE Spec2Model ----
(***************************************************************************)
(* Model of examples/test_workflows.py: the workflow example tester.       *)
(* main() probes the daemon, globs the fixture directory, and runs         *)
(* test_workflow() on every *.json file in sorted order; test_workflow     *)
(* loads the file, creates the workflow, executes it, inspects the result  *)
(* and deletes the workflow.  Every HTTP response and every file content   *)
(* is an input chosen from a small set.                                    *)
(***************************************************************************)
EXTENDS Integers, Sequences, FiniteSets, TLC

\* Number of distinct *.json file stems that may exist in WORKFLOWS_DIR.
MaxFiles == 2

VARIABLES
    pc,              \* position of the single thread of control
    dir,             \* content of WORKFLOWS_DIR (set of files)
    daemon,          \* outcome of check_daemon: "unchecked", "true", "false", "raised"
    workflow_files,  \* main: sorted(WORKFLOWS_DIR.glob("*.json"))
    idx,             \* main: number of files the for loop has taken
    total,           \* main: total
    passed,          \* main: passed
    failed,          \* main: failed
    exit_code,       \* process exit status, NoExit while running
    diag,            \* last fatal diagnostic printed by main / the interpreter
    summarised,      \* TRUE once the "Test Summary" block was printed
    workflow_data,   \* test_workflow: what load_workflow returned
    workflow_id,     \* test_workflow: handle returned by create_workflow
    created,         \* test_workflow: success flag of create_workflow
    success,         \* test_workflow: success flag of execute_workflow
    result,          \* test_workflow: body returned by execute_workflow
    verdict,         \* test_workflow: value the taken branch will return
    reason,          \* test_workflow: last print_error message of the case
    ret,             \* value returned by test_workflow to main
    cleanup,         \* outcome class of the delete call of the current case
    calls,           \* log of HTTP calls issued: kind, file stem, handles
    loads,           \* log of files opened by load_workflow
    history          \* per finished case: what happened and the verdict

vars == <<pc, dir, daemon, workflow_files, idx, total, passed, failed,
          exit_code, diag, summarised, workflow_data, workflow_id, created,
          success, result, verdict, reason, ret, cleanup, calls, loads,
          history>>

----------------------------------------------------------------------------
(* JSON values, as far as the tester looks at them: the type, the text of  *)
(* a string, and the length (or numeric value).                            *)

JAbsent == [t |-> "absent", s |-> "", n |-> 0]
JNull == [t |-> "null", s |-> "", n |-> 0]
JStr(str, len) == [t |-> "string", s |-> str, n |-> len]
JNum(k) == [t |-> "number", s |-> "", n |-> k]
JObj(len) == [t |-> "object", s |-> "", n |-> len]
JArr(len) == [t |-> "array", s |-> "", n |-> len]

\* Python truthiness: bool(v)
Truthy(v) ==
    CASE v.t = "absent" -> FALSE
      [] v.t = "null" -> FALSE
      [] v.t = "number" -> v.n # 0
      [] OTHER -> v.n > 0

\* Python: len(v) is defined
HasLen(v) == v.t \in {"string", "object", "array"}

\* Python: v.keys() / v.get() is defined
IsDict(v) == v.t = "object"

Digits == <<"0", "1", "2", "3", "4", "5", "6", "7", "8", "9">>

\* Python: str(v) as interpolated by an f-string
PyStr(v) ==
    CASE v.t = "string" -> v.s
      [] v.t = "null" -> "None"
      [] v.t = "number" -> Digits[(v.n % 10) + 1]
      [] v.t = "object" -> "{...}"
      [] v.t = "array" -> "[...]"
      [] OTHER -> ""

\* Python: d.get(key, default) on a parsed field
Get(field, default) == IF field.t = "absent" THEN default ELSE field

----------------------------------------------------------------------------
(* Inputs *)

JsonFiles == [stem : 1..MaxFiles, ext : {"json"}]
OtherFile == [stem |-> 0, ext |-> "md"]
Directories == SUBSET (JsonFiles \cup {OtherFile})

\* what json.load makes of a fixture file
FileContents == {"object", "nonobject", "malformed", "unreadable"}

\* urlopen outcomes: a response with a status code, or an exception
NetRaises == {"HTTPError", "URLError", "timeout"}

\* the probe tells a timeout while connecting (urlopen wraps it in URLError)
\* from a timeout while reading the response (raised as it is)
ProbeOutcomes ==
    {"200", "204", "HTTPError", "URLError", "connect_timeout",
     "read_timeout"}

\* body of the create response
CreateIds == {JAbsent, JNull, JStr("", 0), JStr("w1", 2), JStr("w2", 2)}
CreateBodies ==
    [json : {"object"}, id : CreateIds]
        \cup [json : {"array", "invalid"}, id : {JAbsent}]
CreateOutcomes ==
    [net : {"response"}, code : {200, 201, 204}, body : CreateBodies]
        \cup [net : NetRaises, code : {0},
              body : {[json |-> "invalid", id |-> JAbsent]}]

\* body of the execute response
StatusValues ==
    {JAbsent, JNull, JStr("completed", 9), JStr("failed", 6),
     JStr("running", 7)}
OutputValues ==
    {JAbsent, JNull, JObj(0), JObj(2), JArr(0), JArr(1), JStr("text", 4),
     JNum(5)}
EmptyBody ==
    [json |-> "object", status |-> JAbsent, steps_executed |-> JAbsent,
     execution_time_ms |-> JAbsent, output |-> JAbsent]
ExecBodies ==
    [json : {"object"}, status : StatusValues,
     steps_executed : {JAbsent, JNum(1)},
     execution_time_ms : {JAbsent, JNum(42)},
     output : OutputValues]
        \cup {[EmptyBody EXCEPT !.json = "array"],
              [EmptyBody EXCEPT !.json = "invalid"]}
ExecOutcomes ==
    [net : {"response"}, code : {200, 204}, body : ExecBodies]
        \cup [net : NetRaises, code : {0}, body : {EmptyBody}]

DeleteOutcomes == {"response"} \cup NetRaises

NoExit == -1
NoReason == [kind |-> "none", text |-> ""]

----------------------------------------------------------------------------
Init ==
    /\ pc = "check_daemon"
    /\ dir \in Directories
    /\ daemon = "unchecked"
    /\ workflow_files = <<>>
    /\ idx = 0
    /\ total = 0
    /\ passed = 0
    /\ failed = 0
    /\ exit_code = NoExit
    /\ diag = "none"
    /\ summarised = FALSE
    /\ workflow_data = "none"
    /\ workflow_id = JAbsent
    /\ created = FALSE
    /\ success = FALSE
    /\ result = EmptyBody
    /\ verdict = FALSE
    /\ reason = NoReason
    /\ ret = FALSE
    /\ cleanup = "none"
    /\ calls = <<>>
    /\ loads = <<>>
    /\ history = <<>>

\* the locals of test_workflow, as they are before its first statement
ClearCase ==
    /\ workflow_data' = "none"
    /\ workflow_id' = JAbsent
    /\ created' = FALSE
    /\ success' = FALSE
    /\ result' = EmptyBody
    /\ verdict' = FALSE
    /\ reason' = NoReason
    /\ cleanup' = "none"

CaseVars ==
    <<workflow_data, workflow_id, created, success, result, verdict, reason,
      cleanup>>
MainVars ==
    <<dir, daemon, workflow_files, idx, total, passed, failed, exit_code,
      diag, summarised, history>>

\* the file the for loop is at
workflow_file == workflow_files[idx]

\* a request that carries one fixed handle in its URL, whatever the case
Call_FixedHandle(op) ==
    [op |-> op, file |-> workflow_file.stem, id |-> JStr("w1", 2),
     returned |-> JAbsent]

\* one HTTP request of the current case: its kind, the case it belongs
\* to, the handle in its URL and (for a create) the handle it returned
Call(op) ==
    [op |-> op, file |-> workflow_file.stem, id |-> workflow_id,
     returned |-> JAbsent]

----------------------------------------------------------------------------
(* check_daemon and the top of main *)

\* check_daemon(): True only for a 200 response; URLError and HTTPError
\* are caught; a timeout while reading the response is a TimeoutError,
\* which the except clause does not name, so it leaves main.
DaemonResult(o) ==
    CASE o = "200" -> "true"
      [] o = "read_timeout" -> "raised"
      [] OTHER -> "false"

\* main going on to the fixtures whatever check_daemon returned
check_daemon_Ignored ==
    /\ pc = "check_daemon"
    /\ \E o \in ProbeOutcomes :
        /\ daemon' = DaemonResult(o)
        /\ IF DaemonResult(o) = "raised"
             THEN /\ pc' = "exited"
                  /\ exit_code' = 1
                  /\ diag' = "traceback"
             ELSE /\ pc' = "glob"
                  /\ UNCHANGED <<exit_code, diag>>
    /\ UNCHANGED <<dir, workflow_files, idx, total, passed, failed,
                   summarised, history, calls, loads, ret>>
    /\ UNCHANGED CaseVars

check_daemon ==
    /\ pc = "check_daemon"
    /\ \E o \in ProbeOutcomes :
        /\ daemon' = DaemonResult(o)
        /\ IF DaemonResult(o) = "true"
             THEN /\ pc' = "glob"
                  /\ UNCHANGED <<exit_code, diag>>
             ELSE /\ pc' = "exited"
                  /\ exit_code' = 1
                  /\ diag' = IF DaemonResult(o) = "raised"
                               THEN "traceback"
                               ELSE "daemon_not_running"
    /\ UNCHANGED <<dir, workflow_files, idx, total, passed, failed,
                   summarised, history, calls, loads, ret>>
    /\ UNCHANGED CaseVars

\* the files in the opposite order
RECURSIVE SortedSeq_Descending(_)
SortedSeq_Descending(S) ==
    IF S = {} THEN <<>>
    ELSE LET last == CHOOSE f \in S : \A g \in S : f.stem >= g.stem
         IN  <<last>> \o SortedSeq_Descending(S \ {last})

\* sorted(): ascending by file name
RECURSIVE SortedSeq(_)
SortedSeq(S) ==
    IF S = {} THEN <<>>
    ELSE LET least == CHOOSE f \in S : \A g \in S : f.stem <= g.stem
         IN  <<least>> \o SortedSeq(S \ {least})

\* WORKFLOWS_DIR.glob("*.json")
Glob(d) == {f \in d : f.ext = "json"}

\* main without the test for an empty list of fixtures
main_glob_NoEmptyCheck ==
    /\ pc = "glob"
    /\ workflow_files' = SortedSeq(Glob(dir))
    /\ pc' = "loop"
    /\ UNCHANGED <<dir, daemon, idx, total, passed, failed, summarised,
                   history, calls, loads, ret, exit_code, diag>>
    /\ UNCHANGED CaseVars

\* main, lines 204-219: list the fixtures, stop when there are none
main_glob ==
    /\ pc = "glob"
    /\ workflow_files' = SortedSeq(Glob(dir))
    /\ IF workflow_files' = <<>>
         THEN /\ pc' = "exited"
              /\ exit_code' = 1
              /\ diag' = "no_workflow_files"
         ELSE /\ pc' = "loop"
              /\ UNCHANGED <<exit_code, diag>>
    /\ UNCHANGED <<dir, daemon, idx, total, passed, failed, summarised,
                   history, calls, loads, ret>>
    /\ UNCHANGED CaseVars

\* main, lines 222-223: the for loop takes the next file, or ends
main_loop ==
    /\ pc = "loop"
    /\ IF idx < Len(workflow_files)
         THEN /\ idx' = idx + 1
              /\ total' = total + 1
              /\ pc' = "load"
         ELSE /\ pc' = "summary"
              /\ UNCHANGED <<idx, total>>
    /\ UNCHANGED <<dir, daemon, workflow_files, passed, failed, exit_code,
                   diag, summarised, history, calls, loads, ret>>
    /\ UNCHANGED CaseVars

----------------------------------------------------------------------------
(* test_workflow *)

\* load_workflow called outside the try: the exception ends the process
load_workflow_Uncaught ==
    /\ pc = "load"
    /\ loads' = Append(loads, workflow_file.stem)
    /\ \E content \in FileContents :
        IF content \in {"malformed", "unreadable"}
          THEN /\ pc' = "exited"
               /\ exit_code' = 1
               /\ diag' = "traceback"
               /\ UNCHANGED <<workflow_data, reason, ret>>
          ELSE /\ workflow_data' = content
               /\ pc' = "create"
               /\ UNCHANGED <<reason, ret, exit_code, diag>>
    /\ UNCHANGED <<workflow_id, created, success, result, verdict, cleanup,
                   calls>>
    /\ UNCHANGED <<dir, daemon, workflow_files, idx, total, passed, failed,
                   summarised, history>>

\* load_workflow(filepath), inside the try of test_workflow: a file that
\* cannot be opened or parsed raises, and the except clause returns False
load_workflow ==
    /\ pc = "load"
    /\ loads' = Append(loads, workflow_file.stem)
    /\ \E content \in FileContents :
        IF content \in {"malformed", "unreadable"}
          THEN /\ reason' = [kind |-> "exception", text |-> content]
               /\ ret' = FALSE
               /\ pc' = "ret"
               /\ UNCHANGED workflow_data
          ELSE /\ workflow_data' = content
               /\ pc' = "create"
               /\ UNCHANGED <<reason, ret>>
    /\ UNCHANGED <<workflow_id, created, success, result, verdict, cleanup,
                   calls>>
    /\ UNCHANGED MainVars

\* create_workflow taking any 200/201 JSON object for a success
CreateResult_NoIdCheck(o) ==
    IF /\ o.net = "response"
       /\ o.code \in {200, 201}
       /\ o.body.json = "object"
      THEN <<TRUE, o.body.id>>
      ELSE <<FALSE, JStr("", 0)>>

\* create_workflow: the (success, workflow_id) pair for one outcome of
\* the POST; every exception is caught and gives (False, "")
CreateResult(o) ==
    IF /\ o.net = "response"
       /\ o.code \in {200, 201}
       /\ o.body.json = "object"
       /\ Truthy(o.body.id)
      THEN <<TRUE, o.body.id>>
      ELSE <<FALSE, JStr("", 0)>>

\* create_workflow posting a second time when the first attempt failed
create_workflow_Retry ==
    /\ pc = "create"
    /\ IF workflow_data = "nonobject"
         THEN /\ created' = FALSE
              /\ workflow_id' = JStr("", 0)
              /\ UNCHANGED calls
         ELSE \E o1, o2 \in CreateOutcomes :
              LET o == IF CreateResult(o1)[1] THEN o1 ELSE o2
                  c == [Call("create") EXCEPT !.id = JAbsent,
                                              !.returned = CreateResult(o)[2]]
              IN  /\ created' = CreateResult(o)[1]
                  /\ workflow_id' = CreateResult(o)[2]
                  /\ calls' = IF CreateResult(o1)[1]
                                THEN Append(calls, c)
                                ELSE calls \o <<c, c>>
    /\ IF created'
         THEN /\ pc' = "execute"
              /\ UNCHANGED <<reason, ret>>
         ELSE /\ reason' = [kind |-> "create", text |-> "Failed to create workflow"]
              /\ ret' = FALSE
              /\ pc' = "ret"
    /\ UNCHANGED <<workflow_data, success, result, verdict, cleanup, loads>>
    /\ UNCHANGED MainVars

\* create_workflow(workflow_data) and lines 144-150 of test_workflow;
\* workflow_data.get raises before the request when the fixture is not a
\* JSON object
create_workflow ==
    /\ pc = "create"
    /\ IF workflow_data = "nonobject"
         THEN /\ created' = FALSE
              /\ workflow_id' = JStr("", 0)
              /\ UNCHANGED calls
         ELSE \E o \in CreateOutcomes :
              /\ created' = CreateResult(o)[1]
              /\ workflow_id' = CreateResult(o)[2]
              /\ calls' = Append(calls, [Call("create") EXCEPT
                                            !.id = JAbsent,
                                            !.returned = CreateResult(o)[2]])
    /\ IF created'
         THEN /\ pc' = "execute"
              /\ UNCHANGED <<reason, ret>>
         ELSE /\ reason' = [kind |-> "create", text |-> "Failed to create workflow"]
              /\ ret' = FALSE
              /\ pc' = "ret"
    /\ UNCHANGED <<workflow_data, success, result, verdict, cleanup, loads>>
    /\ UNCHANGED MainVars

\* execute_workflow: the (success, result) pair for one outcome of the
\* POST; every exception is caught and gives (False, {})
ExecResult(o) ==
    IF /\ o.net = "response"
       /\ o.code = 200
       /\ o.body.json # "invalid"
      THEN <<TRUE, o.body>>
      ELSE <<FALSE, EmptyBody>>

\* execute_workflow without its except clause, called outside the try:
\* an exception of urlopen ends the process
execute_workflow_Uncaught ==
    /\ pc = "execute"
    /\ \E o \in ExecOutcomes :
        /\ success' = ExecResult(o)[1]
        /\ result' = ExecResult(o)[2]
        /\ IF o.net = "response"
             THEN /\ pc' = "inspect"
                  /\ UNCHANGED <<exit_code, diag>>
             ELSE /\ pc' = "exited"
                  /\ exit_code' = 1
                  /\ diag' = "traceback"
    /\ calls' = Append(calls, Call("execute"))
    /\ UNCHANGED <<workflow_data, workflow_id, created, verdict, reason,
                   ret, cleanup, loads>>
    /\ UNCHANGED <<dir, daemon, workflow_files, idx, total, passed, failed,
                   summarised, history>>

\* execute_workflow(workflow_id), line 157 of test_workflow
execute_workflow ==
    /\ pc = "execute"
    /\ \E o \in ExecOutcomes :
        /\ success' = ExecResult(o)[1]
        /\ result' = ExecResult(o)[2]
    /\ calls' = Append(calls, Call("execute"))
    /\ pc' = "inspect"
    /\ UNCHANGED <<workflow_data, workflow_id, created, verdict, reason,
                   ret, cleanup, loads>>
    /\ UNCHANGED MainVars

\* result.get("status") without the default
StatusOf_NoDefault(r) == Get(r.status, JNull)

\* result.get("status", "completed")
StatusOf_DefaultCompleted(r) == Get(r.status, JStr("completed", 9))

\* result.get("status", "unknown")
StatusOf(r) == Get(r.status, JStr("unknown", 7))

\* lines 167-174: printing the output summary raises when output is
\* truthy and has no len(), or has no keys()
OutputRaises(r) ==
    LET output == Get(r.output, JObj(0))
    IN  Truthy(output) /\ (~HasLen(output) \/ ~IsDict(output))

\* test_workflow returning from the failed execute without the delete
test_workflow_inspect_NoCleanup ==
    /\ pc = "inspect"
    /\ IF ~success
         THEN /\ reason' = [kind |-> "execute", text |-> "Workflow execution failed"]
              /\ ret' = FALSE
              /\ pc' = "ret"
              /\ UNCHANGED verdict
         ELSE IF ~IsDict([t |-> result.json, s |-> "", n |-> 0])
         THEN /\ reason' = [kind |-> "exception", text |-> "AttributeError"]
              /\ ret' = FALSE
              /\ pc' = "ret"
              /\ UNCHANGED verdict
         ELSE IF StatusOf(result) = JStr("completed", 9)
         THEN IF OutputRaises(result)
                THEN /\ reason' = [kind |-> "exception",
                                   text |-> IF HasLen(Get(result.output, JObj(0)))
                                              THEN "AttributeError"
                                              ELSE "TypeError"]
                     /\ ret' = FALSE
                     /\ pc' = "ret"
                     /\ UNCHANGED verdict
                ELSE /\ verdict' = TRUE
                     /\ pc' = "delete"
                     /\ UNCHANGED <<reason, ret>>
         ELSE /\ reason' = [kind |-> "status", text |-> PyStr(StatusOf(result))]
              /\ verdict' = FALSE
              /\ pc' = "delete"
              /\ UNCHANGED ret
    /\ UNCHANGED <<workflow_data, workflow_id, created, success, result,
                   cleanup, calls, loads>>
    /\ UNCHANGED MainVars

\* lines 159-187 up to the delete call: which branch is taken, what it
\* prints and what it is going to return; an exception raised here goes
\* to the except clause of line 189, which returns False
test_workflow_inspect ==
    /\ pc = "inspect"
    /\ IF ~success
         THEN /\ reason' = [kind |-> "execute", text |-> "Workflow execution failed"]
              /\ verdict' = FALSE
              /\ pc' = "delete"
              /\ UNCHANGED ret
         ELSE IF ~IsDict([t |-> result.json, s |-> "", n |-> 0])
         THEN /\ reason' = [kind |-> "exception", text |-> "AttributeError"]
              /\ ret' = FALSE
              /\ pc' = "ret"
              /\ UNCHANGED verdict
         ELSE IF StatusOf(result) = JStr("completed", 9)
         THEN IF OutputRaises(result)
                THEN /\ reason' = [kind |-> "exception",
                                   text |-> IF HasLen(Get(result.output, JObj(0)))
                                              THEN "AttributeError"
                                              ELSE "TypeError"]
                     /\ ret' = FALSE
                     /\ pc' = "ret"
                     /\ UNCHANGED verdict
                ELSE /\ verdict' = TRUE
                     /\ pc' = "delete"
                     /\ UNCHANGED <<reason, ret>>
         ELSE /\ reason' = [kind |-> "status", text |-> PyStr(StatusOf(result))]
              /\ verdict' = FALSE
              /\ pc' = "delete"
              /\ UNCHANGED ret
    /\ UNCHANGED <<workflow_data, workflow_id, created, success, result,
                   cleanup, calls, loads>>
    /\ UNCHANGED MainVars

\* delete_workflow letting the exception of urlopen reach the except
\* clause of test_workflow
delete_workflow_Propagates ==
    /\ pc = "delete"
    /\ \E o \in DeleteOutcomes :
        /\ cleanup' = IF o = "response" THEN "deleted" ELSE "swallowed"
        /\ ret' = IF o = "response" THEN verdict ELSE FALSE
    /\ calls' = Append(calls, Call("delete"))
    /\ pc' = "ret"
    /\ UNCHANGED <<workflow_data, workflow_id, created, success, result,
                   verdict, reason, loads>>
    /\ UNCHANGED MainVars

\* delete_workflow(workflow_id) and the return that follows it (lines
\* 177-178, 182-183, 186-187): whatever urlopen does is swallowed
delete_workflow ==
    /\ pc = "delete"
    /\ \E o \in DeleteOutcomes :
        cleanup' = IF o = "response" THEN "deleted" ELSE "swallowed"
    /\ calls' = Append(calls, Call("delete"))
    /\ ret' = verdict
    /\ pc' = "ret"
    /\ UNCHANGED <<workflow_data, workflow_id, created, success, result,
                   verdict, reason, loads>>
    /\ UNCHANGED MainVars

----------------------------------------------------------------------------
(* back in main *)

\* what the finished case leaves behind
Outcome ==
    [name |-> workflow_file.stem,
     loaded |-> workflow_data # "none",
     created |-> created,
     handle |-> workflow_id,
     executed |-> success,
     status |-> IF success /\ result.json = "object"
                  THEN result.status ELSE JAbsent,
     passed |-> ret]

\* main counting a failure for every case (the else is lost)
main_record_NoElse ==
    /\ pc = "ret"
    /\ passed' = IF ret THEN passed + 1 ELSE passed
    /\ failed' = failed + 1
    /\ history' = Append(history, Outcome)
    /\ ClearCase
    /\ pc' = "loop"
    /\ UNCHANGED <<dir, daemon, workflow_files, idx, total, exit_code, diag,
                   summarised, calls, loads, ret>>

\* main, lines 225-231: count the verdict
main_record ==
    /\ pc = "ret"
    /\ IF ret
         THEN /\ passed' = passed + 1
              /\ UNCHANGED failed
         ELSE /\ failed' = failed + 1
              /\ UNCHANGED passed
    /\ history' = Append(history, Outcome)
    /\ ClearCase
    /\ pc' = "loop"
    /\ UNCHANGED <<dir, daemon, workflow_files, idx, total, exit_code, diag,
                   summarised, calls, loads, ret>>

\* sys.exit(0) whatever was counted
ExitCode_AlwaysZero(f) == 0

\* sys.exit(0 if failed == 0 else 1)
ExitCode(f) == IF f = 0 THEN 0 ELSE 1

\* main, lines 233-244: print the summary and exit
main_summary ==
    /\ pc = "summary"
    /\ summarised' = TRUE
    /\ exit_code' = ExitCode(failed)
    /\ pc' = "exited"
    /\ UNCHANGED <<dir, daemon, workflow_files, idx, total, passed, failed,
                   diag, history, calls, loads, ret>>
    /\ UNCHANGED CaseVars

----------------------------------------------------------------------------
Next ==
    \/ check_daemon
    \/ main_glob
    \/ main_loop
    \/ load_workflow
    \/ create_workflow
    \/ execute_workflow
    \/ test_workflow_inspect
    \/ delete_workflow
    \/ main_record
    \/ main_summary

Spec == Init /\ [][Next]_vars

\* the runs over a directory that holds *.json files only
FairInit == Init /\ OtherFile \notin dir

\* main is one thread of sequential code and every urlopen call has a
\* timeout, so a step that can be taken is taken
FairSpec == FairInit /\ [][Next]_vars /\ WF_vars(Next)

----------------------------------------------------------------------------
(* Properties *)

Completed == JStr("completed", 9)

\* number of calls of kind op issued for the case of file stem f
CallCount(f, op) ==
    Cardinality({i \in DOMAIN calls : calls[i].file = f /\ calls[i].op = op})

\* the case in progress has returned to main and is not counted yet
CaseFinished == pc = "ret"

\* C1: whenever create_workflow returned success with a handle, exactly one
\* delete is attempted for that case before it finishes, whatever the
\* execute call and the inspection of its result did.
C1_DeleteOnceAfterCreate ==
    /\ (CaseFinished /\ created) =>
            CallCount(workflow_file.stem, "delete") = 1
    /\ \A i \in DOMAIN history :
            history[i].created => CallCount(history[i].name, "delete") = 1

\* C2: a case whose create succeeded and whose execute response has
\* status "completed" is reported as passed, whatever the other fields of
\* the response are.
C2_CompletedPasses ==
    (/\ CaseFinished
     /\ created
     /\ success
     /\ result.json = "object"
     /\ result.status = Completed) => ret = TRUE

\* C3 as claimed: every execute response whose status is not "completed"
\* (a string other than "completed", or an absent status) fails the case,
\* and the reason is that status string verbatim.
C3_ReasonIsStatusVerbatim ==
    (/\ CaseFinished
     /\ success
     /\ result.json = "object"
     /\ result.status.t \in {"string", "absent"}
     /\ result.status # Completed) =>
        /\ ret = FALSE
        /\ reason = [kind |-> "status", text |-> result.status.s]

\* the text the status branch prints for a JSON object body
StatusText(st) ==
    CASE st.t = "string" -> st.s
      [] st.t = "absent" -> "unknown"
      [] st.t = "null" -> "None"
      [] OTHER -> ""

\* C3 as amended: every execute response whose status is not "completed"
\* fails the case; the reason is the status verbatim when the status is a
\* string, "unknown" when the body is an object without a status, "None"
\* when the status is null, and the raised exception when the body is not
\* a JSON object.
C3_NonCompletedFails ==
    (/\ CaseFinished
     /\ success
     /\ result.status # Completed) =>
        /\ ret = FALSE
        /\ IF result.json = "object"
             THEN reason = [kind |-> "status",
                            text |-> StatusText(result.status)]
             ELSE reason.kind = "exception"

\* C3 witness: a case ended on an object body without a status field
C3_Witness ==
    /\ CaseFinished
    /\ success
    /\ result.json = "object"
    /\ result.status = JAbsent
    /\ reason.text = "unknown"
    /\ cleanup # "none"

\* create_workflow reports no success for a status other than 200/201,
\* an exception of urlopen, or a body without an identifier
CreateFailuresRejected ==
    \A o \in CreateOutcomes :
        (\/ o.net # "response"
         \/ o.code \notin {200, 201}
         \/ o.body.id = JAbsent) => ~CreateResult(o)[1]

\* C4: when create_workflow does not succeed (status other than 200/201,
\* an exception of urlopen, or a body without an identifier) the case
\* fails, and no execute or delete call is issued for it: the case returns
\* right after the create.
C4_CreateFailureEndsCase ==
    /\ CreateFailuresRejected
    /\ pc \in {"execute", "inspect", "delete"} => created /\ Truthy(workflow_id)
    /\ (CaseFinished /\ ~created) =>
            /\ ret = FALSE
            /\ CallCount(workflow_file.stem, "execute") = 0
            /\ CallCount(workflow_file.stem, "delete") = 0
    /\ \A i \in DOMAIN history :
            ~history[i].created =>
                /\ ~history[i].passed
                /\ CallCount(history[i].name, "execute") = 0
                /\ CallCount(history[i].name, "delete") = 0

\* C4 witness: a loaded fixture whose create call was issued and failed
C4_Witness ==
    /\ CaseFinished
    /\ workflow_data = "object"
    /\ CallCount(workflow_file.stem, "create") = 1
    /\ ~created
    /\ reason.kind = "create"

\* check_daemon returns True for a 200 response only
ProbeFailuresRejected ==
    \A o \in ProbeOutcomes \ {"200"} : DaemonResult(o) # "true"

\* C5: when check_daemon does not return True the run is over with a
\* non-zero exit code, no fixture was listed or loaded and no create,
\* execute or delete call was issued.
C5_ProbeFailureStopsRun ==
    /\ ProbeFailuresRejected
    /\ daemon \in {"false", "raised"} =>
            /\ pc = "exited"
            /\ exit_code \notin {0, NoExit}
            /\ workflow_files = <<>>
            /\ loads = <<>>
            /\ calls = <<>>
            /\ total = 0
            /\ ~summarised

\* C5 witness: the probe failed although fixtures were there to run
C5_Witness ==
    /\ daemon = "false"
    /\ pc = "exited"
    /\ Glob(dir) # {}

\* C6: a failing delete never changes the result: the value returned
\* after the delete call is the one the taken branch decided before it,
\* the process does not exit, and main counts the case and goes on with
\* the for loop.
C6_CleanupNeverFlips ==
    [][/\ pc = "delete" =>
            /\ pc' = "ret"
            /\ ret' = verdict
            /\ exit_code' = NoExit
       /\ (pc = "ret" /\ cleanup = "swallowed") =>
            /\ pc' = "loop"
            /\ exit_code' = NoExit
            /\ Len(history') = Len(history) + 1
            /\ history'[Len(history')].passed = verdict]_vars

\* C6 witness: a passed case whose delete call failed
C6_Witness ==
    /\ CaseFinished
    /\ cleanup = "swallowed"
    /\ ret = TRUE

\* C7: the verdict depends only on the status of the execution result:
\* two cases whose execute responses carry the same status get the same
\* verdict, whatever their output fields are.
C7_VerdictDependsOnlyOnStatus ==
    \A i, j \in DOMAIN history :
        (/\ history[i].executed
         /\ history[j].executed
         /\ history[i].status = history[j].status) =>
            history[i].passed = history[j].passed

\* C8: between cases and once the run is over total = passed + failed;
\* every finished case added one to total and one to exactly one of
\* passed and failed.
C8_TotalIsPassedPlusFailed ==
    /\ (pc \in {"loop", "summary"} \/ summarised) =>
            /\ total = passed + failed
            /\ total = Len(history)
    /\ pc \in {"load", "create", "execute", "inspect", "delete", "ret"} =>
            /\ total = passed + failed + 1
            /\ total = Len(history) + 1
    /\ passed = Cardinality({i \in DOMAIN history : history[i].passed})
    /\ failed = Cardinality({i \in DOMAIN history : ~history[i].passed})
    /\ summarised => total = Len(workflow_files)

\* C8 witness: the summary of a run with passed and failed cases
C8_Witness ==
    /\ summarised
    /\ passed > 0
    /\ failed > 0

\* C9: after a successful probe and with at least one fixture, the exit
\* code is 0 exactly when failed = 0 at the end of the run, that is when
\* every case passed, and 1 otherwise.
C9_ExitCodeIffNoFailure ==
    (/\ pc = "exited"
     /\ daemon = "true"
     /\ workflow_files # <<>>) =>
        /\ exit_code \in {0, 1}
        /\ exit_code = 0 <=> failed = 0
        /\ failed = 0 <=> \A i \in DOMAIN history : history[i].passed
        /\ DOMAIN history = DOMAIN workflow_files

\* C9 witness: a run of two or more cases that all passed
C9_Witness ==
    /\ pc = "exited"
    /\ summarised
    /\ passed >= 2
    /\ exit_code = 0

\* C10: with no *.json file in the fixtures directory (and a successful
\* probe) the run ends with exit code 1 and the "No workflow files found"
\* diagnostic, without any create, execute or delete call and without the
\* summary.
C10_NoFixturesAborts ==
    (/\ daemon = "true"
     /\ Glob(dir) = {}
     /\ pc # "glob") =>
        /\ pc = "exited"
        /\ exit_code = 1
        /\ diag = "no_workflow_files"
        /\ calls = <<>>
        /\ loads = <<>>
        /\ total = 0
        /\ ~summarised

\* C10 witness: the directory holds a file, but no *.json file
C10_Witness ==
    /\ pc = "exited"
    /\ diag = "no_workflow_files"
    /\ dir = {OtherFile}

\* number of calls of any kind issued for the case of file stem f
CallsFor(f) == Cardinality({i \in DOMAIN calls : calls[i].file = f})

\* C11: a fixture that fails to load fails only its own case: the case is
\* counted as one failure, no create, execute or delete call is issued
\* for it, and the for loop goes on to every later fixture.
C11_LoadFailureIsLocal ==
    /\ (CaseFinished /\ workflow_data = "none") =>
            /\ ret = FALSE
            /\ reason.kind = "exception"
            /\ CallsFor(workflow_file.stem) = 0
            /\ exit_code = NoExit
    /\ \A i \in DOMAIN history :
            ~history[i].loaded =>
                /\ ~history[i].passed
                /\ CallsFor(history[i].name) = 0
                /\ failed >= Cardinality({j \in DOMAIN history :
                                             ~history[j].loaded})
    /\ (pc = "exited" /\ daemon = "true" /\ workflow_files # <<>>) =>
            /\ summarised
            /\ Len(loads) = Len(workflow_files)
            /\ Len(history) = Len(workflow_files)

\* C11 witness: a fixture failed to load and a later one was created
C11_Witness ==
    \E i, j \in DOMAIN history :
        /\ i < j
        /\ ~history[i].loaded
        /\ history[j].created
        /\ CallsFor(history[j].name) > 0

\* the positions in the call log of the calls of kind op for file stem f
CallsAt(f, op) == {i \in DOMAIN calls : calls[i].file = f /\ calls[i].op = op}

\* the file stems of the cases that have returned to main
FinishedStems ==
    {history[i].name : i \in DOMAIN history}
        \cup (IF CaseFinished THEN {workflow_file.stem} ELSE {})

\* C12 as claimed: every test case issues exactly one create call, which
\* precedes at most one execute call and at most one delete call, and no
\* call is issued a second time.
C12_ExactlyOneCreate ==
    \A f \in FinishedStems :
        /\ CallCount(f, "create") = 1
        /\ CallCount(f, "execute") <= 1
        /\ CallCount(f, "delete") <= 1

\* C12 as amended: every test case issues at most one create call, and
\* exactly one when its fixture loaded as a JSON object; the create call
\* precedes at most one execute call, which precedes at most one delete
\* call; no call is issued a second time.
C12_AtMostOneCallOfEachKind ==
    /\ \A k \in DOMAIN calls :
            /\ \A i \in 1..(k - 1) :
                    calls[i].file # calls[k].file \/ calls[i].op # calls[k].op
            /\ calls[k].op = "execute" =>
                    \E i \in 1..(k - 1) :
                        calls[i].file = calls[k].file /\ calls[i].op = "create"
            /\ calls[k].op = "delete" =>
                    \E i \in 1..(k - 1) :
                        calls[i].file = calls[k].file /\ calls[i].op = "execute"
    /\ CaseFinished =>
            (CallCount(workflow_file.stem, "create") = 1
                <=> workflow_data = "object")
    /\ \A i \in DOMAIN history :
            history[i].created => CallCount(history[i].name, "create") = 1

\* C12 witness: a finished case whose create call failed and was not
\* repeated, after a case that issued all three calls
C12_Witness ==
    /\ CaseFinished
    /\ workflow_data = "object"
    /\ ~created
    /\ CallsFor(workflow_file.stem) = 1
    /\ \E i \in DOMAIN history : CallsFor(history[i].name) = 3

\* execute_workflow reports no success for an exception of urlopen or a
\* status other than 200
ExecFailuresRejected ==
    \A o \in ExecOutcomes :
        (o.net # "response" \/ o.code # 200) => ~ExecResult(o)[1]

\* C13: when create succeeded and the execute call fails at transport
\* level (an exception of urlopen or a status other than 200), the case
\* is recorded as failed, the status of the result is not looked at, and
\* delete_workflow is attempted for the handle before the case returns.
C13_ExecuteFailureStillCleans ==
    /\ ExecFailuresRejected
    /\ (pc \in {"delete", "ret"} /\ created /\ ~success) =>
            /\ reason = [kind |-> "execute",
                         text |-> "Workflow execution failed"]
            /\ IF pc = "delete" THEN verdict = FALSE ELSE ret = FALSE
    /\ (CaseFinished /\ created /\ ~success) =>
            /\ cleanup # "none"
            /\ CallCount(workflow_file.stem, "delete") = 1
            /\ calls[Len(calls)].op = "delete"
            /\ calls[Len(calls)].file = workflow_file.stem
            /\ calls[Len(calls)].id = workflow_id
    /\ \A i \in DOMAIN history :
            (history[i].created /\ ~history[i].executed) =>
                /\ ~history[i].passed
                /\ CallCount(history[i].name, "delete") = 1

\* C13 witness: a created case whose execute call failed has returned
C13_Witness ==
    /\ CaseFinished
    /\ created
    /\ ~success
    /\ CallCount(workflow_file.stem, "execute") = 1
    /\ CallCount(workflow_file.stem, "delete") = 1

C16_LexicographicOrder ==
    /\ (daemon = "true" /\ pc # "glob") =>
            /\ {workflow_files[i] : i \in DOMAIN workflow_files} = Glob(dir)
            /\ \A i \in 1..(Len(workflow_files) - 1) :
                    workflow_files[i].stem < workflow_files[i + 1].stem
    /\ \A i \in 1..(Len(calls) - 1) : calls[i].file <= calls[i + 1].file
    /\ \A i \in 1..(Len(loads) - 1) : loads[i] < loads[i + 1]
    /\ \A i \in 1..(Len(history) - 1) :
            history[i].name < history[i + 1].name

\* C16 witness: two cases have issued calls, the earlier file first
C16_Witness ==
    \E i, j \in DOMAIN calls :
        /\ i < j
        /\ calls[i].file < calls[j].file
        /\ calls[i].op = "delete"
        /\ calls[j].op = "create"

\* execute_workflow reports success for a 200 response only
ExecSuccessIs200 ==
    \A o \in ExecOutcomes :
        ExecResult(o)[1] => (o.net = "response" /\ o.code = 200)

\* C17: a case is counted as passed only when, in that same case, the
\* fixture loaded, create returned a non-empty handle, execute returned
\* HTTP 200 and the status of the response was "completed".
C17_PassedOnlyOnFullSuccess ==
    /\ ExecSuccessIs200
    /\ (CaseFinished /\ ret) =>
            /\ workflow_data = "object"
            /\ created
            /\ Truthy(workflow_id)
            /\ success
            /\ result.json = "object"
            /\ result.status = Completed
            /\ CallCount(workflow_file.stem, "create") = 1
            /\ CallCount(workflow_file.stem, "execute") = 1
    /\ \A i \in DOMAIN history :
            history[i].passed =>
                /\ history[i].loaded
                /\ history[i].created
                /\ Truthy(history[i].handle)
                /\ history[i].executed
                /\ history[i].status = Completed
    /\ passed = Cardinality({i \in DOMAIN history : history[i].passed})

\* C17 witness: a counted pass
C17_Witness ==
    /\ passed > 0
    /\ \E i \in DOMAIN history :
            history[i].passed /\ history[i].status = Completed

\* C18: the handle in the URL of the execute and the delete call of a
\* case is the handle the create call of that same case returned.
C18_OwnHandleOnly ==
    \A k \in DOMAIN calls :
        calls[k].op \in {"execute", "delete"} =>
            /\ Truthy(calls[k].id)
            /\ \E c \in 1..(k - 1) :
                    /\ calls[c].op = "create"
                    /\ calls[c].file = calls[k].file
                    /\ calls[c].returned = calls[k].id
            /\ \A i \in DOMAIN history :
                    history[i].name = calls[k].file =>
                        history[i].handle = calls[k].id

\* C18 witness: two cases with different handles, each deleted
C18_Witness ==
    \E i, j \in DOMAIN calls :
        /\ calls[i].op = "delete"
        /\ calls[j].op = "delete"
        /\ calls[i].file # calls[j].file
        /\ calls[i].id # calls[j].id

\* C15: no error of a test case leaves the for loop: whatever the load,
\* create, execute and delete outcomes are, a run that entered the loop
\* reaches the summary, with total equal to the number of *.json files
\* found and one recorded outcome per file.
C15_RunReachesSummary ==
    (daemon = "true" /\ pc = "loop") ~>
        (/\ summarised
         /\ pc = "exited"
         /\ total = Cardinality(Glob(dir))
         /\ Len(history) = total
         /\ {history[i].name : i \in DOMAIN history}
                = {f.stem : f \in Glob(dir)})

\* C15 witness: the summary of a run in which one fixture failed to load
\* and the execute call of another failed
C15_Witness ==
    /\ summarised
    /\ total = Cardinality(Glob(dir))
    /\ \E i, j \in DOMAIN history :
            /\ ~history[i].loaded
            /\ history[j].created
            /\ ~history[j].executed

====
